---- MODULE Spec2Model ----
(***************************************************************************)
(* Reference and weight management of the MPC controller                   *)
(* (mpc_controller/references.cpp).                                        *)
(*                                                                         *)
(* The solver workspace acadoVariables is one record:                      *)
(*   x   state vectors,      indices 0..HORIZON   (one value per vector)   *)
(*   u   control vectors,    indices 0..HORIZON-1 (one value per vector)   *)
(*   y   stage references,   indices 0..HORIZON-1, fields x,y,heading,vel  *)
(*   yN  terminal reference, fields x,y,heading,vel                        *)
(*   W   stage weights,      indices 0..HORIZON-1, the diagonal of the     *)
(*       NY x NY matrix as fields x,y,heading,vel (off-diagonal entries    *)
(*       are never written with anything but zero)                         *)
(*   WN  terminal weight, same diagonal                                    *)
(*   x0  heading of the measured initial state (x0[IDX_HEADING])           *)
(* Angles are integers in units of pi / 10^6 rad.                          *)
(***************************************************************************)
EXTENDS Integers, Sequences, FiniteSets, TLC

\* ---------------------------------------------------------------- bounds
\* Horizon length (ACADO_N of the generated solver), scaled down.
HORIZON == 3
\* Trajectories have 0 .. HORIZON + MaxExtra points.
MaxExtra == 2
\* Largest value of the temporal index.
MaxIndex == 6

\* ------------------------------------------------------------- constants
\* Angles are whole multiples of pi / 10^6 rad, so that the half turn and
\* the period of std::sin / std::cos are exact on the grid.
HalfTurn == 10 ^ 6
TwoPi == 2 * HalfTurn
\* constexpr auto PI = AcadoReal{3.14159}: 3.14159 rad is 999999.155 units,
\* and err is a whole number of units, so err > 3.14159 rad exactly when
\* err > 999999.
PI == 999999
\* Index arithmetic is unsigned and wraps; the width is scaled down to 16
\* bits, every wrapped value still exceeds any horizon or trajectory length.
IndexModulus == 2 ^ 16

Min(a, b) == IF a < b THEN a ELSE b
Abs(a) == IF a < 0 THEN 0 - a ELSE a

\* Unsigned subtraction on Index / std::size_t.
IndexSub(a, b) == (a - b) % IndexModulus

\* ------------------------------------------------------ configuration
\* get_config().optimization_param().nominal() / .terminal(): StateWeight
nominal == [pose |-> 10, heading |-> 20, longitudinal_velocity |-> 30]
terminal == [pose |-> 1000, heading |-> 2000, longitudinal_velocity |-> 3000]

\* The diagonal a StateWeight puts on a weight matrix.
DiagOf(cfg) ==
  [x |-> cfg.pose, y |-> cfg.pose, heading |-> cfg.heading,
   vel |-> cfg.longitudinal_velocity]
ZeroDiag == [x |-> 0, y |-> 0, heading |-> 0, vel |-> 0]
ZeroRef == [x |-> 0, y |-> 0, heading |-> 0, vel |-> 0]

\* ---------------------------------------------------------- trajectories
\* A trajectory point carries its heading as the unit complex number
\* (cos(phase), sin(phase)) of the half angle; the model keeps the phase.
HeadingPhases ==
  << <<-475000, 475000, 475000, 490000, -490000, -475000, 0, 30000>>,
     <<0, 250000, 495000, -5000, 955000, 65000, -65000, 475000>> >>
Families == 1..2

WaypointAt(f, i) ==
  [x |-> 100 * f + i,
   y |-> 200 * f + 2 * i,
   heading |-> HeadingPhases[f][((i - 1) % 8) + 1],
   longitudinal_velocity_mps |-> 10 * f + i]

MakeTrajectory(f, len) == [i \in 1..len |-> WaypointAt(f, i)]

Trajectories ==
  {MakeTrajectory(f, len) : f \in Families, len \in 0..(HORIZON + MaxExtra)}

\* traj.points[k], 0-based as in the source.
PointAt(traj, k) == traj[k + 1]

\* dth is an exact odd multiple of the half turn: cos(dth) is -1 and the
\* computed sin(dth) is a rounding residue of either sign.
IsTie(dth) == dth % TwoPi = HalfTurn
\* The signs the residue can have.
Signs == {-1, 1}

\* atan2(sin(dth), cos(dth)): dth reduced to one period around zero. At a
\* tie atan2 returns the half turn with the sign of the computed sin(dth),
\* which is the argument tie; elsewhere tie is not looked at.
WrapAngle(dth, tie) ==
  IF IsTie(dth) THEN tie * HalfTurn
  ELSE ((dth + HalfTurn) % TwoPi) - HalfTurn

\* motion_common::to_angle(heading): atan2(2*re*im, 1 - 2*im*im), the
\* doubled half angle reduced to one period; a quarter-turn phase yields
\* the half turn on its own side.
to_angle(heading) == WrapAngle(2 * heading, IF heading >= 0 THEN 1 ELSE -1)

\* The reference vector a waypoint is stored as.
RefOf(pt) ==
  [x |-> pt.x, y |-> pt.y, heading |-> to_angle(pt.heading),
   vel |-> pt.longitudinal_velocity_mps]

\* ------------------------------------------------- results of operations
Ok(av) == [av |-> av, threw |-> FALSE]
Throw(av) == [av |-> av, threw |-> TRUE]
\* Run F on the workspace of r unless r already threw.
Then(r, F(_)) == IF r.threw THEN r ELSE F(r.av)

\* ------------------------------------------------------ weight primitives
\* A terminal weight that is left as it is.
zero_terminal_weights_keep(av) == Ok(av)
zero_terminal_weights(av) == Ok([av EXCEPT !.WN = ZeroDiag])

set_terminal_weights(av, cfg) == Ok([av EXCEPT !.WN = DiagOf(cfg)])

\* A bounds check made before end is clamped.
apply_nominal_weights_unclamped_check(av, cfg, start, end) ==
  LET e == Min(end, HORIZON) IN
  IF start > end THEN Throw(av)
  ELSE Ok([av EXCEPT !.W =
            [i \in DOMAIN av.W |->
               IF start <= i /\ i < e THEN DiagOf(cfg) ELSE av.W[i]]])
apply_nominal_weights(av, cfg, start, end) ==
  LET e == Min(end, HORIZON) IN
  IF start > e THEN Throw(av)
  ELSE Ok([av EXCEPT !.W =
            [i \in DOMAIN av.W |->
               IF start <= i /\ i < e THEN DiagOf(cfg) ELSE av.W[i]]])

\* The relocated terminal cost taken from the nominal profile.
apply_terminal_weights_nominal(av, idx) ==
  IF idx >= HORIZON THEN Throw(av)
  ELSE apply_nominal_weights(av, nominal, idx, idx + 1)
apply_terminal_weights(av, idx) ==
  IF idx >= HORIZON THEN Throw(av)
  ELSE apply_nominal_weights(av, terminal, idx, idx + 1)

\* A fill that stops one stage early.
zero_nominal_weights_short(av, start, end) ==
  LET e == Min(HORIZON, end) IN
  IF start > e THEN Throw(av)
  ELSE Ok([av EXCEPT !.W =
            [i \in DOMAIN av.W |->
               IF start <= i /\ i < e - 1 THEN ZeroDiag ELSE av.W[i]]])
zero_nominal_weights(av, start, end) ==
  LET e == Min(HORIZON, end) IN
  IF start > e THEN Throw(av)
  ELSE Ok([av EXCEPT !.W =
            [i \in DOMAIN av.W |->
               IF start <= i /\ i < e THEN ZeroDiag ELSE av.W[i]]])

apply_weights(av, cfg_nominal, cfg_terminal) ==
  Then(apply_nominal_weights(av, cfg_nominal, 0, HORIZON),
       LAMBDA a : set_terminal_weights(a, cfg_terminal))

\* ------------------------------------------------------- advance_problem
\* A shift that copies from the back of the range.
RECURSIVE copy_backward_order(_, _, _, _)
copy_backward_order(a, first, last, d_first) ==
  IF first >= last THEN a
  ELSE copy_backward_order(
         [a EXCEPT ![d_first + (last - 1 - first)] = a[last - 1]],
         first, last - 1, d_first)

\* std::copy(first, last, d_first) inside one array, element by element
\* from the front. With count = 0 source and destination coincide and every
\* element is copied onto itself.
RECURSIVE copy(_, _, _, _)
copy(a, first, last, d_first) ==
  IF first >= last THEN a
  ELSE copy([a EXCEPT ![d_first] = a[first]], first + 1, last, d_first + 1)

\* A shift of the states that starts at the measurement slot.
advance_problem_from_slot_zero(av, count) ==
  IF HORIZON <= count THEN Throw(av)
  ELSE Ok([av EXCEPT
             !.x = copy(av.x, count, HORIZON + 1, 0),
             !.y = copy(av.y, count, HORIZON, 0),
             !.u = copy(av.u, count, HORIZON, 0)])
advance_problem(av, count) ==
  IF HORIZON <= count THEN Throw(av)
  ELSE Ok([av EXCEPT
             !.x = copy(av.x, count + 1, HORIZON + 1, 1),
             !.y = copy(av.y, count, HORIZON, 0),
             !.u = copy(av.u, count, HORIZON, 0)])

\* --------------------------------------------------- reference population
\* A copy loop that reads the same waypoint for every stage.
RECURSIVE set_reference_loop_same_point(_, _, _, _, _, _)
set_reference_loop_same_point(yv, traj, y_start, traj_start, count, i) ==
  IF i >= count THEN yv
  ELSE set_reference_loop_same_point(
         [yv EXCEPT ![y_start + i] = RefOf(PointAt(traj, traj_start))],
         traj, y_start, traj_start, count, i + 1)
RECURSIVE set_reference_loop(_, _, _, _, _, _)
set_reference_loop(yv, traj, y_start, traj_start, count, i) ==
  IF i >= count THEN yv
  ELSE set_reference_loop(
         [yv EXCEPT ![y_start + i] = RefOf(PointAt(traj, traj_start + i))],
         traj, y_start, traj_start, count, i + 1)

\* A bounds check that also rejects ranges ending exactly at the bound.
set_reference_strict(av, traj, y_start, traj_start, count) ==
  IF (y_start + count) >= HORIZON \/ (traj_start + count) >= Len(traj)
  THEN Throw(av)
  ELSE Ok([av EXCEPT
             !.y = set_reference_loop(av.y, traj, y_start, traj_start, count, 0)])
set_reference(av, traj, y_start, traj_start, count) ==
  IF (y_start + count) > HORIZON \/ (traj_start + count) > Len(traj)
  THEN Throw(av)
  ELSE Ok([av EXCEPT
             !.y = set_reference_loop(av.y, traj, y_start, traj_start, count, 0)])

\* A terminal reference that keeps the old heading.
set_terminal_reference_keep_heading(av, pt) ==
  Ok([av EXCEPT !.yN = [RefOf(pt) EXCEPT !.heading = av.yN.heading]])
\* A terminal reference that brings the terminal weight back.
set_terminal_reference_with_weight(av, pt) ==
  Ok([av EXCEPT !.yN = RefOf(pt), !.WN = DiagOf(terminal)])
set_terminal_reference(av, pt) == Ok([av EXCEPT !.yN = RefOf(pt)])

\* ------------------------------------------- ensure_reference_consistency
\* The lambda fn: st is [last_angle, err], ref the heading it is applied to,
\* tie the sign atan2 takes when the difference is a tie.
\* fn without the accumulation of err.
fn_no_err(st, ref, tie) ==
  LET dth == ref - st.last_angle
      diff == WrapAngle(dth, tie)
      new_ref == st.last_angle + diff
  IN [ref |-> new_ref,
      last_angle |-> new_ref,
      err |-> st.err]
\* fn without the update of last_angle.
fn_keep_last_angle(st, ref, tie) ==
  LET dth == ref - st.last_angle
      diff == WrapAngle(dth, tie)
      new_ref == st.last_angle + diff
  IN [ref |-> new_ref,
      last_angle |-> st.last_angle,
      err |-> st.err + Abs(new_ref - ref)]
fn(st, ref, tie) ==
  LET dth == ref - st.last_angle
      diff == WrapAngle(dth, tie)
      new_ref == st.last_angle + diff
  IN [ref |-> new_ref,
      last_angle |-> new_ref,
      err |-> st.err + Abs(new_ref - ref)]

\* The loop over the stage references: yields [y, last_angle, err].
\* ties[i] is the tie sign of the application of fn to stage i, and
\* ties[HORIZON] the one of the application to the terminal reference.
RECURSIVE consistency_loop(_, _, _, _, _)
consistency_loop(yv, i, horizon, st, ties) ==
  IF i >= horizon THEN [y |-> yv, last_angle |-> st.last_angle, err |-> st.err]
  ELSE LET r == fn(st, yv[i].heading, ties[i])
       IN consistency_loop([yv EXCEPT ![i].heading = r.ref], i + 1, horizon,
                           [last_angle |-> r.last_angle, err |-> r.err], ties)

\* Yields the workspace, the accumulated err and the returned flag.
ensure_reference_consistency(av, horizon_arg, ties) ==
  LET horizon == Min(horizon_arg, HORIZON)
      l == consistency_loop(av.y, 0, horizon,
                            [last_angle |-> av.x0, err |-> 0], ties)
      rN == fn([last_angle |-> l.last_angle, err |-> l.err], av.yN.heading,
               ties[HORIZON])
  IN [av |-> [av EXCEPT !.y = l.y, !.yN.heading = rN.ref],
      threw |-> FALSE,
      err |-> rN.err,
      ret |-> (rN.err > PI)]

\* ---------------------------------------------------- backfill_reference
\* A backfill that pulls from the current point, not from N - count
\* after it.
backfill_reference_no_offset(av, traj, curr_idx, count) ==
  IF HORIZON <= count THEN Throw(av)
  ELSE
    LET ref_start == HORIZON - count
        max_pts == Len(traj)
        traj_start == Min(curr_idx, max_pts)
        traj_end == Min(traj_start + count, max_pts)
        safe_count == traj_end - traj_start
        remainder == count - safe_count
        r1 == set_reference(av, traj, ref_start, traj_start, safe_count)
        r2 == IF safe_count < count
              THEN Then(Then(r1, LAMBDA a :
                               zero_nominal_weights(a, HORIZON - remainder, HORIZON)),
                        LAMBDA a :
                          apply_terminal_weights(a, HORIZON - (remainder + 1)))
              ELSE r1
    IN IF traj_start + count < max_pts
       THEN Then(r2, LAMBDA a :
                   set_terminal_reference(a, PointAt(traj, traj_start + count)))
       ELSE Then(r2, LAMBDA a : zero_terminal_weights(a))
\* A backfill whose start in the trajectory is not clamped to its length.
backfill_reference_unclamped_start(av, traj, curr_idx, count) ==
  IF HORIZON <= count THEN Throw(av)
  ELSE
    LET ref_start == HORIZON - count
        max_pts == Len(traj)
        traj_start == curr_idx + ref_start
        traj_end == Min(traj_start + count, max_pts)
        safe_count == IndexSub(traj_end, traj_start)
        remainder == count - safe_count
        r1 == set_reference(av, traj, ref_start, traj_start, safe_count)
        r2 == IF safe_count < count
              THEN Then(Then(r1, LAMBDA a :
                               zero_nominal_weights(a, HORIZON - remainder, HORIZON)),
                        LAMBDA a :
                          apply_terminal_weights(a, HORIZON - (remainder + 1)))
              ELSE r1
    IN IF traj_start + count < max_pts
       THEN Then(r2, LAMBDA a :
                   set_terminal_reference(a, PointAt(traj, traj_start + count)))
       ELSE Then(r2, LAMBDA a : zero_terminal_weights(a))

\* traj is get_reference_trajectory(), curr_idx is
\* get_current_state_temporal_index().
backfill_reference(av, traj, curr_idx, count) ==
  IF HORIZON <= count THEN Throw(av)
  ELSE
    LET ref_start == HORIZON - count
        max_pts == Len(traj)
        traj_start == Min(curr_idx + ref_start, max_pts)
        traj_end == Min(traj_start + count, max_pts)
        safe_count == traj_end - traj_start
        remainder == count - safe_count
        r1 == set_reference(av, traj, ref_start, traj_start, safe_count)
        r2 == IF safe_count < count
              THEN Then(Then(r1, LAMBDA a :
                               zero_nominal_weights(a, HORIZON - remainder, HORIZON)),
                        LAMBDA a :
                          apply_terminal_weights(a, HORIZON - (remainder + 1)))
              ELSE r1
    IN IF traj_start + count < max_pts
       THEN Then(r2, LAMBDA a :
                   set_terminal_reference(a, PointAt(traj, traj_start + count)))
       ELSE Then(r2, LAMBDA a : zero_terminal_weights(a))

\* ------------------------------------------------- handle_new_trajectory
\* traj is the trajectory the handler works on: its argument, or the
\* resampling of its argument when a resampling buffer is configured (the
\* resampler is external; any trajectory may come out of it). Yields the
\* workspace and whether the call threw.
handle_new_trajectory(av, traj) ==
  LET t_max == Min(Len(traj), HORIZON)
      r1 == set_reference(av, traj, 0, 0, t_max)
      r2 == Then(r1, LAMBDA a : apply_nominal_weights(a, nominal, 0, t_max))
      r3 == IF t_max < HORIZON
            THEN Then(r2, LAMBDA a : zero_nominal_weights(a, t_max, HORIZON))
            ELSE r2
  IN IF t_max >= Len(traj)
     THEN Then(Then(r3, LAMBDA a : zero_terminal_weights(a)),
               LAMBDA a : apply_terminal_weights(a, IndexSub(Len(traj), 1)))
     ELSE Then(r3, LAMBDA a : set_terminal_reference(a, PointAt(traj, t_max)))

\* ------------------------------------------------------------------ state
VARIABLES
  acadoVariables,               \* the solver workspace
  m_reference_trajectory,       \* get_reference_trajectory()
  current_state_temporal_index, \* get_current_state_temporal_index()
  m_last_reference_index,
  call                          \* the last call: operation, arguments, outcome

vars ==
  <<acadoVariables, m_reference_trajectory,
    current_state_temporal_index, m_last_reference_index, call>>

\* The controller's own fields other than the workspace.
controller ==
  <<m_reference_trajectory, current_state_temporal_index,
    m_last_reference_index>>

\* The record of a call: the operation, its arguments (those it does not
\* take left at their defaults), whether it threw, the returned flag and the
\* err accumulated by the heading repair pass.
NoArgs ==
  [traj |-> << >>, y_start |-> 0, traj_start |-> 0, count |-> 0,
   horizon |-> 0, k |-> 0, heading |-> 0, start |-> 0, end |-> 0,
   idx |-> 0, cfg |-> ZeroDiag, ties |-> [i \in 0..HORIZON |-> 1]]
Called(op, args, threw, ret, err) ==
  [op |-> op, args |-> args, threw |-> threw, ret |-> ret, err |-> err]

\* Zero-initialised static workspace.
ZeroWorkspace ==
  [x |-> [i \in 0..HORIZON |-> 0],
   u |-> [i \in 0..(HORIZON - 1) |-> 0],
   y |-> [i \in 0..(HORIZON - 1) |-> ZeroRef],
   yN |-> ZeroRef,
   W |-> [i \in 0..(HORIZON - 1) |-> ZeroDiag],
   WN |-> ZeroDiag,
   x0 |-> 0]

\* After construction: the weights of the configuration are applied, no
\* trajectory is stored.
Init ==
  /\ acadoVariables = apply_weights(ZeroWorkspace, nominal, terminal).av
  /\ m_reference_trajectory = << >>
  /\ current_state_temporal_index = 0
  /\ m_last_reference_index = 0
  /\ call = Called("init", NoArgs, FALSE, FALSE, 0)

\* ---------------------------------------------------------------- actions
\* A new plan arrives: handle_new_trajectory(trajectory); the caller stores
\* the returned trajectory and restarts the temporal index.
HandleNewTrajectory ==
  \E traj \in Trajectories :
    LET r == handle_new_trajectory(acadoVariables, traj) IN
    /\ acadoVariables' = r.av
    /\ m_last_reference_index' =
         IF r.threw THEN m_last_reference_index ELSE 0
    /\ m_reference_trajectory' =
         IF r.threw THEN m_reference_trajectory ELSE traj
    /\ current_state_temporal_index' =
         IF r.threw THEN current_state_temporal_index ELSE 0
    /\ call' = Called("handle_new_trajectory", [NoArgs EXCEPT !.traj = traj],
                      r.threw, FALSE, 0)

\* One control cycle rolls the horizon: the temporal index has advanced by
\* c, then advance_problem and backfill_reference run with the advance since
\* the last applied reference index.
Roll ==
  \E c \in 0..(HORIZON - 1) :
    /\ Len(m_reference_trajectory) > 0
    /\ current_state_temporal_index + c <= MaxIndex
    /\ LET current_idx == current_state_temporal_index + c
           advance_idx == IndexSub(current_idx, m_last_reference_index)
           r == Then(advance_problem(acadoVariables, advance_idx),
                     LAMBDA a : backfill_reference(
                                  a, m_reference_trajectory, current_idx,
                                  advance_idx))
       IN /\ acadoVariables' = r.av
          /\ current_state_temporal_index' = current_idx
          /\ m_last_reference_index' =
               IF r.threw THEN m_last_reference_index ELSE current_idx
          /\ call' = Called("roll", [NoArgs EXCEPT !.count = advance_idx],
                            r.threw, FALSE, 0)
    /\ UNCHANGED m_reference_trajectory

\* The solver returns a state and control trajectory.
Solutions == 1..2
Solve ==
  \E k \in Solutions :
    /\ acadoVariables' =
         [acadoVariables EXCEPT
            !.x = [i \in 0..HORIZON |-> 10 * k + i],
            !.u = [i \in 0..(HORIZON - 1) |-> 50 * k + i]]
    /\ call' = Called("solve", [NoArgs EXCEPT !.k = k], FALSE, FALSE, 0)
    /\ UNCHANGED controller

\* The measured state is written to x0.
MeasuredHeadings == {-950000, 950000}
Measure ==
  \E h \in MeasuredHeadings :
    /\ acadoVariables' = [acadoVariables EXCEPT !.x0 = h]
    /\ call' = Called("measure", [NoArgs EXCEPT !.heading = h], FALSE, FALSE,
                      0)
    /\ UNCHANGED controller

AdvanceProblem ==
  \E count \in 0..(HORIZON + 1) :
    LET r == advance_problem(acadoVariables, count) IN
    /\ acadoVariables' = r.av
    /\ call' = Called("advance_problem", [NoArgs EXCEPT !.count = count],
                      r.threw, FALSE, 0)
    /\ UNCHANGED controller

\* A direct call of set_reference; the arguments range over every
\* trajectory and over indices up to one past the valid ones.
SetReference ==
  /\ call.op # "set_reference"
  /\ \E traj \in Trajectories :
       \E y_start \in 0..(HORIZON + 1), traj_start \in 0..(Len(traj) + 1),
          count \in 0..(HORIZON + 1) :
         LET r == set_reference(acadoVariables, traj, y_start, traj_start,
                                count) IN
         /\ acadoVariables' = r.av
         /\ call' = Called("set_reference",
                           [NoArgs EXCEPT
                              !.traj = traj, !.y_start = y_start,
                              !.traj_start = traj_start, !.count = count],
                           r.threw, FALSE, 0)
         /\ UNCHANGED controller

\* The workspace a direct set_reference call meets is prepared by plans.
PrepareReference ==
  /\ call.op # "set_reference"
  /\ HandleNewTrajectory

\* The applications of fn in ensure_reference_consistency(horizon) whose
\* difference is a tie. A rewritten heading moves by whole periods, so the
\* stored headings tell which differences are ties.
TiedApplications(av, horizon_arg) ==
  LET h == Min(horizon_arg, HORIZON)
      before(k) == IF k = 0 \/ (k = HORIZON /\ h = 0) THEN av.x0
                   ELSE IF k = HORIZON THEN av.y[h - 1].heading
                   ELSE av.y[k - 1].heading
      ref(k) == IF k = HORIZON THEN av.yN.heading ELSE av.y[k].heading
  IN {k \in (0..(h - 1)) \cup {HORIZON} : IsTie(ref(k) - before(k))}

\* One sign for every tied application, either sign being possible.
TieSigns(av, horizon_arg) ==
  LET tied == TiedApplications(av, horizon_arg) IN
  {[k \in 0..HORIZON |-> IF k \in tied THEN s[k] ELSE 1] :
     s \in [tied -> Signs]}

EnsureReferenceConsistency ==
  \E horizon \in 0..(HORIZON + 1) :
    \E ties \in TieSigns(acadoVariables, horizon) :
      LET r == ensure_reference_consistency(acadoVariables, horizon, ties) IN
      /\ acadoVariables' = r.av
      /\ call' = Called("ensure_reference_consistency",
                        [NoArgs EXCEPT !.horizon = horizon, !.ties = ties],
                        r.threw, r.ret, r.err)
      /\ UNCHANGED controller

\* Direct calls of the range weight primitives, with either profile and
\* bounds up to past the horizon.
ApplyNominalWeights ==
  \E cfg \in {nominal, terminal} :
    \E start \in 0..(HORIZON + 1), end \in 0..(HORIZON + 2) :
      LET r == apply_nominal_weights(acadoVariables, cfg, start, end) IN
      /\ acadoVariables' = r.av
      /\ call' = Called("apply_nominal_weights",
                        [NoArgs EXCEPT !.cfg = DiagOf(cfg), !.start = start,
                                       !.end = end],
                        r.threw, FALSE, 0)
      /\ UNCHANGED controller

ZeroNominalWeights ==
  \E start \in 0..(HORIZON + 1), end \in 0..(HORIZON + 2) :
    LET r == zero_nominal_weights(acadoVariables, start, end) IN
    /\ acadoVariables' = r.av
    /\ call' = Called("zero_nominal_weights",
                      [NoArgs EXCEPT !.start = start, !.end = end],
                      r.threw, FALSE, 0)
    /\ UNCHANGED controller

ApplyTerminalWeights ==
  \E idx \in 0..(HORIZON + 1) :
    LET r == apply_terminal_weights(acadoVariables, idx) IN
    /\ acadoVariables' = r.av
    /\ call' = Called("apply_terminal_weights", [NoArgs EXCEPT !.idx = idx],
                      r.threw, FALSE, 0)
    /\ UNCHANGED controller

\* apply_weights with the controller's configuration.
ApplyWeights ==
  LET r == apply_weights(acadoVariables, nominal, terminal) IN
  /\ acadoVariables' = r.av
  /\ call' = Called("apply_weights", NoArgs, r.threw, FALSE, 0)
  /\ UNCHANGED controller

\* The temporal index tracker moves on: the index never decreases.
AdvanceIndex ==
  \E idx \in (current_state_temporal_index + 1)..MaxIndex :
    /\ current_state_temporal_index' = idx
    /\ call' = Called("advance_index", [NoArgs EXCEPT !.idx = idx], FALSE,
                      FALSE, 0)
    /\ UNCHANGED <<acadoVariables, m_reference_trajectory,
                   m_last_reference_index>>

\* A direct call of backfill_reference on the stored trajectory and the
\* current temporal index.
BackfillReference ==
  \E count \in 0..(HORIZON + 1) :
    LET r == backfill_reference(acadoVariables, m_reference_trajectory,
                                current_state_temporal_index, count) IN
    /\ acadoVariables' = r.av
    /\ call' = Called("backfill_reference", [NoArgs EXCEPT !.count = count],
                      r.threw, FALSE, 0)
    /\ UNCHANGED controller

\* --------------------------------------------------------- specifications
\* The controller in operation: plans arrive and the horizon rolls.
Next == HandleNewTrajectory \/ Roll
Spec == Init /\ [][Next]_vars

\* advance_problem on workspaces filled by the solver and by plans.
NextShift == Solve \/ HandleNewTrajectory \/ AdvanceProblem
SpecShift == Init /\ [][NextShift]_vars

\* Direct calls of set_reference.
NextSetReference == PrepareReference \/ SetReference
SpecSetReference == Init /\ [][NextSetReference]_vars

\* The heading repair pass on references of plans and measured headings.
NextHeading == Measure \/ HandleNewTrajectory \/ EnsureReferenceConsistency
SpecHeading == Init /\ [][NextHeading]_vars

\* Direct calls of the weight primitives.
NextWeights == ApplyNominalWeights \/ ZeroNominalWeights \/ ApplyTerminalWeights
SpecWeights == Init /\ [][NextWeights]_vars

\* One direct call of an operation that takes one index or count, on a
\* stored plan (or none) at any temporal index.
ScalarOps == {"backfill_reference", "advance_problem", "apply_terminal_weights"}
StorePlan == call.op \notin ScalarOps /\ HandleNewTrajectory
TrackIndex == call.op \notin ScalarOps /\ AdvanceIndex
CallBackfillReference == call.op \notin ScalarOps /\ BackfillReference
CallAdvanceProblem == call.op \notin ScalarOps /\ AdvanceProblem
CallApplyTerminalWeights == call.op \notin ScalarOps /\ ApplyTerminalWeights
NextBackfill ==
  \/ StorePlan
  \/ TrackIndex
  \/ CallBackfillReference
  \/ CallAdvanceProblem
  \/ CallApplyTerminalWeights
SpecBackfill == Init /\ [][NextBackfill]_vars

\* Plans, rolls and re-applied weights.
NextTerminal == HandleNewTrajectory \/ Roll \/ ApplyWeights
SpecTerminal == Init /\ [][NextTerminal]_vars

\* ----------------------------------------------------------------- claims
\* Shorthands for the last call.
Op == call.op
Arg == call.args

\* ---------------------------------------------------------------------
\* C1 Shift correctness: after advance_problem(count) with 0 <= count <
\* HORIZON, for every i in [0, HORIZON-count): y[i] is the old y[i+count],
\* u[i] the old u[i+count] and x[i+1] the old x[i+1+count].
C1_ShiftCorrect ==
  [][(call'.op = "advance_problem" /\ call'.args.count < HORIZON) =>
       \A i \in 0..(HORIZON - call'.args.count - 1) :
         /\ acadoVariables'.y[i] = acadoVariables.y[i + call'.args.count]
         /\ acadoVariables'.u[i] = acadoVariables.u[i + call'.args.count]
         /\ acadoVariables'.x[i + 1] =
              acadoVariables.x[i + 1 + call'.args.count]]_vars

\* A shift by one or more stages has moved a plan's reference and a solver
\* state to the front.
C1_Witness ==
  /\ Op = "advance_problem" /\ ~call.threw
  /\ Arg.count >= 1 /\ Arg.count < HORIZON
  /\ acadoVariables.y[0] = RefOf(WaypointAt(1, Arg.count + 1))
  /\ acadoVariables.x[1] = 10 + 1 + Arg.count
  /\ acadoVariables.u[0] = 50 + Arg.count

\* ---------------------------------------------------------------------
\* C2 Reference copy correctness: set_reference(traj, y_start, traj_start,
\* count) within bounds makes y[y_start+i] the waypoint traj[traj_start+i]
\* (x, y and velocity verbatim, the heading as the angle in one period
\* around zero whose half is the waypoint's phase) and changes no other
\* stage reference, no weight, no terminal reference, state or control.
SameRotation(angle, phase) ==
  /\ (angle - 2 * phase) % TwoPi = 0
  /\ 0 - HalfTurn <= angle /\ angle <= HalfTurn

C2_ReferenceCopyCorrect ==
  [][(/\ call'.op = "set_reference"
      /\ call'.args.y_start + call'.args.count <= HORIZON
      /\ call'.args.traj_start + call'.args.count <= Len(call'.args.traj)) =>
       LET a == call'.args IN
       /\ \A i \in 0..(a.count - 1) :
            LET ref == acadoVariables'.y[a.y_start + i]
                pt == PointAt(a.traj, a.traj_start + i)
            IN /\ ref.x = pt.x
               /\ ref.y = pt.y
               /\ ref.vel = pt.longitudinal_velocity_mps
               /\ SameRotation(ref.heading, pt.heading)
       /\ \A j \in 0..(HORIZON - 1) :
            (j < a.y_start \/ j >= a.y_start + a.count) =>
              acadoVariables'.y[j] = acadoVariables.y[j]
       /\ acadoVariables'.W = acadoVariables.W
       /\ acadoVariables'.WN = acadoVariables.WN
       /\ acadoVariables'.yN = acadoVariables.yN
       /\ acadoVariables'.x = acadoVariables.x
       /\ acadoVariables'.u = acadoVariables.u]_vars

\* Two waypoints from the middle of a plan were copied to the last two
\* stages, over the references of another plan.
C2_Witness ==
  /\ Op = "set_reference" /\ ~call.threw
  /\ Arg.count = 2 /\ Arg.y_start = HORIZON - 2 /\ Arg.traj_start = 1
  /\ acadoVariables.y[HORIZON - 2] = RefOf(PointAt(Arg.traj, 1))
  /\ acadoVariables.y[HORIZON - 1] = RefOf(PointAt(Arg.traj, 2))
  /\ acadoVariables.y[0] = RefOf(WaypointAt(2, 1))
  /\ Arg.traj[1] = WaypointAt(1, 1)

\* ---------------------------------------------------------------------
\* C3 handle_new_trajectory with 1 <= |traj| <= HORIZON: stages before
\* |traj|-1 carry the nominal profile, stage |traj|-1 the terminal profile,
\* stages from |traj| on a zero weight, the terminal weight is zero and
\* y[i] is waypoint traj[i] for i < |traj|.
C3_ShortTrajectory ==
  (Op = "handle_new_trajectory" /\ Len(Arg.traj) >= 1
     /\ Len(Arg.traj) <= HORIZON) =>
    LET n == Len(Arg.traj) IN
    /\ \A i \in 0..(HORIZON - 1) :
         /\ (i < n - 1) => acadoVariables.W[i] = DiagOf(nominal)
         /\ (i = n - 1) => acadoVariables.W[i] = DiagOf(terminal)
         /\ (i >= n) => acadoVariables.W[i] = ZeroDiag
         /\ (i < n) => acadoVariables.y[i] = RefOf(PointAt(Arg.traj, i))
    /\ acadoVariables.WN = ZeroDiag

\* A plan shorter than the horizon by at least one stage was ingested.
C3_Witness ==
  /\ Op = "handle_new_trajectory" /\ ~call.threw
  /\ Len(Arg.traj) = HORIZON - 1
  /\ acadoVariables.W[HORIZON - 2] = DiagOf(terminal)
  /\ acadoVariables.W[HORIZON - 1] = ZeroDiag

\* ---------------------------------------------------------------------
\* C4 handle_new_trajectory with |traj| > HORIZON: y[i] is waypoint traj[i]
\* for every stage, every stage carries the nominal profile, the terminal
\* reference is waypoint traj[HORIZON] and the last applied reference index
\* is 0.
C4_LongTrajectory ==
  (Op = "handle_new_trajectory" /\ Len(Arg.traj) > HORIZON) =>
    /\ \A i \in 0..(HORIZON - 1) :
         /\ acadoVariables.y[i] = RefOf(PointAt(Arg.traj, i))
         /\ acadoVariables.W[i] = DiagOf(nominal)
    /\ acadoVariables.yN = RefOf(PointAt(Arg.traj, HORIZON))
    /\ m_last_reference_index = 0

\* A plan longer than the horizon was ingested.
C4_Witness ==
  /\ Op = "handle_new_trajectory" /\ ~call.threw
  /\ Len(Arg.traj) = HORIZON + 1
  /\ acadoVariables.yN = RefOf(WaypointAt(2, HORIZON + 1))

\* ---------------------------------------------------------------------
\* C5 handle_new_trajectory with an empty or a single-point trajectory
\* completes without raising.
C5_EdgeTrajectoriesNoError ==
  (Op = "handle_new_trajectory" /\ Len(Arg.traj) <= 1) => ~call.threw

\* ---------------------------------------------------------------------
\* C6 No partial-success state: a call that raises leaves the workspace
\* exactly as it was.
C6_NoPartialSuccess ==
  [][call'.threw => acadoVariables' = acadoVariables]_vars

\* ---------------------------------------------------------------------
\* C7 Soft landing on real data: when the backfill of a roll finds the
\* trajectory exhausted (safe_count < count), the stage HORIZON-remainder-1
\* that receives the terminal profile is the horizon position
\* |traj|-1-curr_idx and holds the final waypoint.
C7_SoftLandingOnRealData ==
  (Op = "roll" /\ ~call.threw) =>
    LET count == Arg.count
        max_pts == Len(m_reference_trajectory)
        curr_idx == current_state_temporal_index
        traj_start == Min(curr_idx + (HORIZON - count), max_pts)
        safe_count == Min(traj_start + count, max_pts) - traj_start
        remainder == count - safe_count
        stage == HORIZON - remainder - 1
    IN (safe_count < count) =>
         /\ stage = max_pts - 1 - curr_idx
         /\ acadoVariables.y[stage] =
              RefOf(PointAt(m_reference_trajectory, max_pts - 1))

\* ---------------------------------------------------------------------
\* The chain the repair pass walks: the measured heading, the headings of
\* the first h stage references, the terminal heading (1-based sequence of
\* length h + 2).
Chain(av, h) ==
  [k \in 1..(h + 2) |->
     IF k = 1 THEN av.x0
     ELSE IF k = h + 2 THEN av.yN.heading
     ELSE av.y[k - 2].heading]

\* A tenth of the half turn, 0.314 rad.
SmallTurn == 10 ^ 5

\* Stage references i and i+1 lie on opposite sides of the wraparound, a
\* small true turn apart, and no other neighbours of the chain are more
\* than half a period apart.
WrapsOnlyAt(av, h, i) ==
  LET a == av.y[i].heading
      b == av.y[i + 1].heading
      c == Chain(av, h)
  IN /\ Abs(a) <= HalfTurn /\ Abs(b) <= HalfTurn
     /\ Abs(b - a) > HalfTurn
     /\ TwoPi - Abs(b - a) <= SmallTurn
     /\ \A k \in 1..(h + 1) : (k # i + 2) => Abs(c[k + 1] - c[k]) < HalfTurn

\* C8 (as stated) Heading unwrap acceptance: two consecutive stage
\* headings across the wraparound, no other discontinuity: the pass leaves
\* them a small turn apart, err stays below pi and it returns false.
C8_UnwrapAccepted ==
  [][(call'.op = "ensure_reference_consistency") =>
       LET h == Min(call'.args.horizon, HORIZON) IN
       \A i \in 0..(h - 2) :
         WrapsOnlyAt(acadoVariables, h, i) =>
           /\ Abs(acadoVariables'.y[i + 1].heading
                  - acadoVariables'.y[i].heading) <= SmallTurn
           /\ call'.err < PI
           /\ call'.ret = FALSE]_vars

\* C8 (amended) Heading unwrap: in the same case the pass leaves the two
\* headings a small turn apart, but the rewritten heading has moved by a
\* whole period: err is at least 2*pi and the pass returns true.
C8_UnwrapReported ==
  [][(call'.op = "ensure_reference_consistency") =>
       LET h == Min(call'.args.horizon, HORIZON) IN
       \A i \in 0..(h - 2) :
         WrapsOnlyAt(acadoVariables, h, i) =>
           /\ Abs(acadoVariables'.y[i + 1].heading
                  - acadoVariables'.y[i].heading) <= SmallTurn
           /\ call'.err >= TwoPi
           /\ call'.ret = TRUE]_vars

\* The pass ran over the stored pair -0.95 pi, 0.95 pi and left -0.95 pi,
\* -1.05 pi.
C8_Witness ==
  /\ Op = "ensure_reference_consistency"
  /\ Arg.horizon >= 2
  /\ acadoVariables.x0 = -950000
  /\ acadoVariables.y[0].heading = -950000
  /\ acadoVariables.y[1].heading = -1050000
  /\ call.err >= TwoPi
  /\ call.ret = TRUE

\* ---------------------------------------------------------------------
\* C9 Heading continuity after the repair pass with h = min(horizon,
\* HORIZON): in the chain (measured heading, y[0..h-1] headings, terminal
\* heading) neighbours differ by at most pi, every heading of the chain
\* differs from its old value by a multiple of 2*pi, and the stage
\* references from h on and every x, y and velocity are unchanged.
C9_HeadingContinuity ==
  [][(call'.op = "ensure_reference_consistency") =>
       LET h == Min(call'.args.horizon, HORIZON)
           old == Chain(acadoVariables, h)
           new == Chain(acadoVariables', h)
       IN /\ \A k \in 1..(h + 1) : Abs(new[k + 1] - new[k]) <= HalfTurn
          /\ \A k \in 1..(h + 2) : (new[k] - old[k]) % TwoPi = 0
          /\ new[1] = old[1]
          /\ \A i \in 0..(HORIZON - 1) :
               /\ (i >= h) => acadoVariables'.y[i] = acadoVariables.y[i]
               /\ acadoVariables'.y[i].x = acadoVariables.y[i].x
               /\ acadoVariables'.y[i].y = acadoVariables.y[i].y
               /\ acadoVariables'.y[i].vel = acadoVariables.y[i].vel
          /\ acadoVariables'.yN.x = acadoVariables.yN.x
          /\ acadoVariables'.yN.y = acadoVariables.yN.y
          /\ acadoVariables'.yN.vel = acadoVariables.yN.vel]_vars

\* The pass rewrote the first stage heading of a plan, starting from a
\* measured heading that is not zero, and stopped before the last stage.
C9_Witness ==
  /\ Op = "ensure_reference_consistency"
  /\ Arg.horizon = HORIZON - 1
  /\ acadoVariables.x0 = 950000
  /\ acadoVariables.y[0].heading = 1050000
  /\ acadoVariables.y[HORIZON - 1].heading = to_angle(WaypointAt(1, HORIZON).heading)
  /\ acadoVariables.y[0].x = WaypointAt(1, 1).x
  /\ acadoVariables.yN.x = WaypointAt(1, HORIZON + 1).x
  /\ call.err > 0

\* ---------------------------------------------------------------------
\* C10 Bounds enforcement of set_reference: the call raises exactly when
\* y_start+count > HORIZON or traj_start+count > |traj|; a call with count
\* 0, y_start <= HORIZON and traj_start <= |traj| succeeds and writes
\* nothing.
C10_SetReferenceBounds ==
  [][(call'.op = "set_reference") =>
       LET a == call'.args IN
       /\ call'.threw <=>
            (a.y_start + a.count > HORIZON
               \/ a.traj_start + a.count > Len(a.traj))
       /\ (a.count = 0 /\ a.y_start <= HORIZON
             /\ a.traj_start <= Len(a.traj)) =>
            (~call'.threw /\ acadoVariables' = acadoVariables)]_vars

\* An empty copy at the very end of both ranges succeeded.
C10_Witness ==
  /\ Op = "set_reference" /\ ~call.threw
  /\ Arg.count = 0 /\ Arg.y_start = HORIZON
  /\ Arg.traj_start = Len(Arg.traj) /\ Len(Arg.traj) > 0
  /\ acadoVariables.y[0] # ZeroRef

\* ---------------------------------------------------------------------
\* C11 Range weight primitives: apply_nominal_weights(profile, start, end)
\* and zero_nominal_weights(start, end) raise exactly when start >
\* min(end, HORIZON); otherwise they put the profile (zero) on the diagonal
\* of exactly the stages in [start, min(end, HORIZON)) and leave every
\* other stage weight and the terminal weight unchanged.
C11_RangeWeights ==
  [][(call'.op \in {"apply_nominal_weights", "zero_nominal_weights"}) =>
       LET a == call'.args
           e == IF a.end < HORIZON THEN a.end ELSE HORIZON
           diag == IF call'.op = "apply_nominal_weights"
                   THEN a.cfg ELSE ZeroDiag
       IN /\ call'.threw <=> (a.start > e)
          /\ ~call'.threw =>
               /\ \A i \in 0..(HORIZON - 1) :
                    acadoVariables'.W[i] =
                      IF a.start <= i /\ i < e THEN diag
                      ELSE acadoVariables.W[i]
               /\ acadoVariables'.WN = acadoVariables.WN]_vars

\* The terminal profile was applied from stage 1 to an end past the
\* horizon, over stages that were zeroed before; stage 0 kept its weight.
C11_Witness ==
  /\ Op = "apply_nominal_weights" /\ ~call.threw
  /\ Arg.start = 1 /\ Arg.end = HORIZON + 2
  /\ Arg.cfg = DiagOf(terminal)
  /\ acadoVariables.W[0] = ZeroDiag
  /\ \A i \in 1..(HORIZON - 1) : acadoVariables.W[i] = DiagOf(terminal)

\* ---------------------------------------------------------------------
\* C12 Scalar-index bounds: apply_terminal_weights(idx) raises exactly when
\* idx >= HORIZON; advance_problem(count) and backfill_reference(count)
\* raise exactly when count >= HORIZON, whatever the stored trajectory
\* (empty, or fully behind the vehicle) and the temporal index.
C12_ScalarBounds ==
  /\ (Op = "apply_terminal_weights") => (call.threw <=> (Arg.idx >= HORIZON))
  /\ (Op \in {"advance_problem", "backfill_reference"}) =>
       (call.threw <=> (Arg.count >= HORIZON))

\* A backfill of HORIZON-1 stages succeeded on a trajectory that lies
\* fully behind the vehicle.
C12_Witness ==
  /\ Op = "backfill_reference" /\ ~call.threw
  /\ Arg.count = HORIZON - 1
  /\ Len(m_reference_trajectory) > 0
  /\ current_state_temporal_index > Len(m_reference_trajectory)

\* ---------------------------------------------------------------------
\* C13 Backfill soft landing: backfill_reference(count), count < HORIZON,
\* traj_start = min(curr_idx + HORIZON - count, |traj|), safe_count =
\* min(traj_start + count, |traj|) - traj_start < count: afterwards
\* y[HORIZON-count+j] is waypoint traj[traj_start+j] for j < safe_count, the
\* last remainder = count - safe_count stages have a zero weight and stage
\* HORIZON-remainder-1 carries the terminal profile.
C13_BackfillSoftLanding ==
  (Op = "backfill_reference" /\ Arg.count < HORIZON) =>
    LET count == Arg.count
        traj == m_reference_trajectory
        max_pts == Len(traj)
        t_start == IF current_state_temporal_index + HORIZON - count < max_pts
                   THEN current_state_temporal_index + HORIZON - count
                   ELSE max_pts
        t_end == IF t_start + count < max_pts THEN t_start + count
                 ELSE max_pts
        safe == t_end - t_start
        rem == count - safe
    IN (safe < count) =>
         /\ \A j \in 0..(safe - 1) :
              acadoVariables.y[HORIZON - count + j] =
                RefOf(PointAt(traj, t_start + j))
         /\ \A i \in (HORIZON - rem)..(HORIZON - 1) :
              acadoVariables.W[i] = ZeroDiag
         /\ acadoVariables.W[HORIZON - rem - 1] = DiagOf(terminal)

\* A backfill of HORIZON-1 stages found one waypoint left: one real stage,
\* the rest zero-weighted, the terminal profile on the real stage.
C13_Witness ==
  /\ Op = "backfill_reference" /\ ~call.threw
  /\ Arg.count = HORIZON - 1
  /\ current_state_temporal_index >= 1
  /\ Len(m_reference_trajectory) = current_state_temporal_index + 2
  /\ acadoVariables.y[1] =
       RefOf(PointAt(m_reference_trajectory,
                     Len(m_reference_trajectory) - 1))
  /\ acadoVariables.W[1] = DiagOf(terminal)
  /\ acadoVariables.W[HORIZON - 1] = ZeroDiag
  /\ acadoVariables.W[0] = DiagOf(nominal)

\* ---------------------------------------------------------------------
\* C14 Backfill terminal rule: after a successful backfill_reference(count),
\* if traj_start + count < |traj| the terminal reference is waypoint
\* traj[traj_start + count] and the terminal weight is unchanged, otherwise
\* the terminal weight is zero and the terminal reference is unchanged.
C14_BackfillTerminalRule ==
  [][(call'.op = "backfill_reference" /\ ~call'.threw) =>
       LET count == call'.args.count
           traj == m_reference_trajectory
           max_pts == Len(traj)
           t_start ==
             IF current_state_temporal_index + HORIZON - count < max_pts
             THEN current_state_temporal_index + HORIZON - count
             ELSE max_pts
       IN IF t_start + count < max_pts
          THEN /\ acadoVariables'.yN = RefOf(PointAt(traj, t_start + count))
               /\ acadoVariables'.WN = acadoVariables.WN
          ELSE /\ acadoVariables'.WN = ZeroDiag
               /\ acadoVariables'.yN = acadoVariables.yN]_vars

\* A backfill moved the terminal reference one waypoint on and kept the
\* configured terminal weight.
C14_Witness ==
  /\ Op = "backfill_reference" /\ ~call.threw
  /\ Arg.count = 1
  /\ current_state_temporal_index = 1
  /\ Len(m_reference_trajectory) = HORIZON + 2
  /\ acadoVariables.yN = RefOf(PointAt(m_reference_trajectory, HORIZON + 1))
  /\ acadoVariables.WN = DiagOf(terminal)

\* ---------------------------------------------------------------------
\* C15 Rolling-window equivalence: after each roll of a run of plans and
\* rolls, y[i] is waypoint traj[curr_idx + i] for every stage i with
\* curr_idx + i < |traj|, and the terminal reference is waypoint
\* traj[curr_idx + HORIZON] whenever curr_idx + HORIZON < |traj|.
C15_RollingWindow ==
  (Op = "roll") =>
    LET traj == m_reference_trajectory
        curr_idx == current_state_temporal_index
    IN /\ \A i \in 0..(HORIZON - 1) :
            (curr_idx + i < Len(traj)) =>
              acadoVariables.y[i] = RefOf(PointAt(traj, curr_idx + i))
       /\ (curr_idx + HORIZON < Len(traj)) =>
            acadoVariables.yN = RefOf(PointAt(traj, curr_idx + HORIZON))

\* Two rolls into a plan longer than the horizon: the window starts at
\* waypoint 2 and the last waypoint has entered the last stage.
C15_Witness ==
  /\ Op = "roll" /\ ~call.threw
  /\ Arg.count = 1
  /\ current_state_temporal_index = 2
  /\ Len(m_reference_trajectory) = HORIZON + 2
  /\ acadoVariables.y[0] = RefOf(PointAt(m_reference_trajectory, 2))
  /\ acadoVariables.y[HORIZON - 1] =
       RefOf(PointAt(m_reference_trajectory, HORIZON + 1))

\* ---------------------------------------------------------------------
\* C16 No tracking cost beyond the known plan: after every
\* handle_new_trajectory and every completed roll, each stage i with a
\* non-zero weight holds plan data: curr_idx + i < |traj| and y[i] is
\* waypoint traj[curr_idx + i].
C16_NoCostBeyondPlan ==
  (Op \in {"handle_new_trajectory", "roll"} /\ ~call.threw) =>
    LET traj == m_reference_trajectory
        curr_idx == current_state_temporal_index
    IN \A i \in 0..(HORIZON - 1) :
         (acadoVariables.W[i] # ZeroDiag) =>
           /\ curr_idx + i < Len(traj)
           /\ acadoVariables.y[i] = RefOf(PointAt(traj, curr_idx + i))

\* ---------------------------------------------------------------------
\* C17 Frame of advance_problem: a successful advance_problem(count) leaves
\* x[0], every stage weight, the terminal weight and the terminal reference
\* unchanged, and the exposed tail (y and u at [HORIZON-count, HORIZON), x
\* at [HORIZON-count+1, HORIZON+1)) keeps its values.
C17_AdvanceFrame ==
  [][(call'.op = "advance_problem" /\ ~call'.threw) =>
       LET count == call'.args.count IN
       /\ acadoVariables'.x[0] = acadoVariables.x[0]
       /\ acadoVariables'.W = acadoVariables.W
       /\ acadoVariables'.WN = acadoVariables.WN
       /\ acadoVariables'.yN = acadoVariables.yN
       /\ \A i \in (HORIZON - count)..(HORIZON - 1) :
            /\ acadoVariables'.y[i] = acadoVariables.y[i]
            /\ acadoVariables'.u[i] = acadoVariables.u[i]
            /\ acadoVariables'.x[i + 1] = acadoVariables.x[i + 1]]_vars

\* A shift by HORIZON-1 stages on a solved workspace with a plan: the
\* measurement slot and the last stage are as the solver and the plan left
\* them.
C17_Witness ==
  /\ Op = "advance_problem" /\ ~call.threw
  /\ Arg.count = HORIZON - 1
  /\ acadoVariables.x[0] = 20
  /\ acadoVariables.x[1] = 20 + HORIZON
  /\ acadoVariables.x[HORIZON] = 20 + HORIZON
  /\ acadoVariables.u[HORIZON - 1] = 100 + HORIZON - 1
  /\ acadoVariables.y[HORIZON - 1] = RefOf(WaypointAt(2, HORIZON))
  /\ acadoVariables.y[0] = RefOf(WaypointAt(2, HORIZON))

\* ---------------------------------------------------------------------
\* C18 The terminal weight is never restored by plan ingestion:
\* handle_new_trajectory with |traj| > HORIZON leaves the terminal weight as
\* it was, and once it is zero it stays zero through every later
\* handle_new_trajectory and roll, until apply_weights is called.
C18_TerminalWeightNotRestored ==
  [][(call'.op \in {"handle_new_trajectory", "roll"}) =>
       /\ (call'.op = "handle_new_trajectory"
             /\ Len(call'.args.traj) > HORIZON) =>
            acadoVariables'.WN = acadoVariables.WN
       /\ (acadoVariables.WN = ZeroDiag) =>
            acadoVariables'.WN = ZeroDiag]_vars

\* A plan longer than the horizon was ingested after the terminal weight
\* had been zeroed: all stages are nominal, the terminal weight is zero.
C18_Witness ==
  /\ Op = "handle_new_trajectory" /\ ~call.threw
  /\ Len(Arg.traj) > HORIZON
  /\ acadoVariables.WN = ZeroDiag
  /\ acadoVariables.yN = RefOf(PointAt(Arg.traj, HORIZON))

====
